---- MODULE Spec2Model ----
(***************************************************************************)
(* Model of js/app.js of church-lyrics-system: the chord transposer        *)
(* (transposeChord, CHORDS, FLAT_MAP) and the song viewer that calls it    *)
(* (loadViewer, renderSong and the transpose controls).                    *)
(*                                                                         *)
(* A JavaScript string is modelled as a sequence of one-character strings, *)
(* so <<"D", "b", "m">> stands for "Dbm" and <<>> for "".                  *)
(***************************************************************************)
EXTENDS Integers, Sequences, FiniteSets, TLC

\* ------------------------------------------------------------------ bounds

\* Longest chord text handed to transposeChord by the call harness.
MaxLen == 3
\* The first call's steps range over -MaxSteps..MaxSteps.
MaxSteps == 13
\* A second call on the first call's result uses -MaxAgain..MaxAgain, or the
\* negation of the first call's steps.
MaxAgain == 1
\* Multiples of 12 added to the steps when the period is examined.
MaxK == 1
\* Number of transpose events the viewer model follows.
MaxEvents == 13

\* Longest text of the single-call specification SpecLine, and its steps
\* -MaxLineSteps..MaxLineSteps.
MaxLineLen == 4
MaxLineSteps == 1

\* The characters chord texts are drawn from: two root letters (C at index 0
\* of the cycle, B at index 11), both accidentals, a letter that is no root,
\* the slash, and three kinds of whitespace.
Alphabet == {"C", "B", "#", "b", "m", "/", " ", "\t", "\n"}

Texts == UNION {[1..n -> Alphabet] : n \in 0..MaxLen}

LineTexts == UNION {[1..n -> Alphabet] : n \in 0..MaxLineLen}

StepRange == -MaxSteps..MaxSteps

\* ------------------------------------------------------- JavaScript strings

\* The characters of the alphabet that the regular expression class \s matches.
IsSpace(c) == c \in {" ", "\t", "\n"}

\* The characters that "." does not match (line terminators).
IsLineTerminator(c) == c = "\n"

HasSpaceClass(s) == \E i \in 1..Len(s) : IsSpace(s[i])

Includes(s, c) == \E i \in 1..Len(s) : s[i] = c

\* String.prototype.trim
Trim(s) ==
  LET keep == {i \in 1..Len(s) : ~IsSpace(s[i])}
  IN  IF keep = {} THEN <<>>
      ELSE LET lo == CHOOSE i \in keep : \A j \in keep : i <= j
               hi == CHOOSE i \in keep : \A j \in keep : j <= i
           IN  SubSeq(s, lo, hi)

\* String.prototype.split with a one-character separator
RECURSIVE SplitOn(_, _)
SplitOn(s, c) ==
  IF ~Includes(s, c) THEN <<s>>
  ELSE LET i == CHOOSE k \in 1..Len(s) : s[k] = c /\ \A j \in 1..(k - 1) : s[j] # c
       IN  <<SubSeq(s, 1, i - 1)>> \o SplitOn(SubSeq(s, i + 1, Len(s)), c)

\* String.prototype.split(/\s+/): every maximal run of whitespace separates;
\* a leading or trailing run yields an empty first or last piece.
RECURSIVE SplitWs(_)
SplitWs(s) ==
  IF ~HasSpaceClass(s) THEN <<s>>
  ELSE LET i == CHOOSE k \in 1..Len(s) :
                   IsSpace(s[k]) /\ \A j \in 1..(k - 1) : ~IsSpace(s[j])
           after == {k \in (i + 1)..Len(s) : ~IsSpace(s[k])}
           j == IF after = {} THEN Len(s) + 1
                ELSE CHOOSE k \in after : \A l \in after : k <= l
       IN  <<SubSeq(s, 1, i - 1)>> \o SplitWs(SubSeq(s, j, Len(s)))

\* Array.prototype.join
RECURSIVE Join(_, _)
Join(parts, sep) ==
  IF parts = <<>> THEN <<>>
  ELSE IF Len(parts) = 1 THEN parts[1]
  ELSE parts[1] \o sep \o Join(Tail(parts), sep)

\* The % operator of JavaScript: the remainder takes the sign of the dividend.
JsRem(x, n) == IF x >= 0 THEN x % n ELSE -((-x) % n)

\* ------------------------------------------------------------- the tables

CHORDS ==
  << <<"C">>, <<"C", "#">>, <<"D">>, <<"D", "#">>, <<"E">>, <<"F">>,
     <<"F", "#">>, <<"G">>, <<"G", "#">>, <<"A">>, <<"A", "#">>, <<"B">> >>

FLAT_MAP ==
  (<<"D", "b">> :> <<"C", "#">>) @@ (<<"E", "b">> :> <<"D", "#">>) @@
  (<<"G", "b">> :> <<"F", "#">>) @@ (<<"A", "b">> :> <<"G", "#">>) @@
  (<<"B", "b">> :> <<"A", "#">>)

\* A variant of IndexOf: a name that is not in CHORDS is given index 0.
IndexOfOrZero(full) ==
  IF \E i \in 1..Len(CHORDS) : CHORDS[i] = full
  THEN (CHOOSE i \in 1..Len(CHORDS) : CHORDS[i] = full) - 1
  ELSE 0

\* Array.prototype.indexOf on CHORDS: the 0-based index, or -1.
IndexOf(full) ==
  IF \E i \in 1..Len(CHORDS) : CHORDS[i] = full
  THEN (CHOOSE i \in 1..Len(CHORDS) : CHORDS[i] = full) - 1
  ELSE -1

\* ---------------------------------------------------------- transposeChord

\* The guard of the chord-line branch:
\*   /\s/.test(chordText) && chordText.trim().includes(' ')
IsChordLine(chordText) == HasSpaceClass(chordText) /\ Includes(Trim(chordText), " ")

\* chordText.match(/^([A-G])([b#]?)(.*)$/) succeeds
Matches(chordText) ==
  /\ Len(chordText) >= 1
  /\ chordText[1] \in {"A", "B", "C", "D", "E", "F", "G"}
  /\ \A i \in 2..Len(chordText) : ~IsLineTerminator(chordText[i])

\* The groups of the match: [, root, accidental, suffix]
MatchRoot(chordText) == <<chordText[1]>>

\* A variant of MatchAccidental: the pattern has no accidental group, and the
\* sign stays in the suffix.
MatchAccidentalNone(chordText) == <<>>

MatchAccidental(chordText) ==
  IF Len(chordText) >= 2 /\ chordText[2] \in {"b", "#"} THEN <<chordText[2]>> ELSE <<>>

\* A variant of MatchSuffix: the suffix is taken to begin at the third
\* character, with or without an accidental.
MatchSuffixAfterTwo(chordText) == SubSeq(chordText, 3, Len(chordText))

MatchSuffix(chordText) ==
  SubSeq(chordText, 2 + Len(MatchAccidental(chordText)), Len(chordText))

\* A variant of Full: the FLAT_MAP lookup is left out.
FullAsWritten(chordText) == MatchRoot(chordText) \o MatchAccidental(chordText)

\* let full = root + (accidental || ''); if (FLAT_MAP[full]) full = FLAT_MAP[full];
Full(chordText) ==
  LET full == MatchRoot(chordText) \o MatchAccidental(chordText)
  IN  IF full \in DOMAIN FLAT_MAP THEN FLAT_MAP[full] ELSE full

\* A variant of NewIdx: the negative remainder is not corrected.
NewIdxTruncated(idx, steps) == JsRem(idx + steps, 12)

\* A variant of NewIdx: the remainder is not taken.
NewIdxNoRemainder(idx, steps) ==
  LET newIdx == idx + steps
  IN  IF newIdx < 0 THEN newIdx + 12 ELSE newIdx

\* let newIdx = (idx + (steps || 0)) % 12; if (newIdx < 0) newIdx += 12;
NewIdx(idx, steps) ==
  LET newIdx == JsRem(idx + steps, 12)
  IN  IF newIdx < 0 THEN newIdx + 12 ELSE newIdx

\* A variant of NewRoot: the array is read as if it were indexed from 1.
NewRootOneBased(newIdx) ==
  IF newIdx \in 1..Len(CHORDS) THEN CHORDS[newIdx]
  ELSE <<"u", "n", "d", "e", "f", "i", "n", "e", "d">>

\* CHORDS[newIdx]; reading outside the array gives undefined, which the
\* string concatenation renders as the text "undefined".
NewRoot(newIdx) ==
  IF newIdx \in 0..(Len(CHORDS) - 1) THEN CHORDS[newIdx + 1]
  ELSE <<"u", "n", "d", "e", "f", "i", "n", "e", "d">>

\* The last branch of transposeChord: a text with no chord-line split and no
\* slash split left to do.
transposeSingle(chordText, steps) ==
  IF ~Matches(chordText) THEN chordText
  ELSE LET idx == IndexOf(Full(chordText))
       IN  IF idx = -1 THEN chordText
           ELSE NewRoot(NewIdx(idx, steps)) \o MatchSuffix(chordText)

\* A variant of SlashChord: the two parts change places.
SlashChordSwapped(main, bass) == bass \o <<"/">> \o main

\* return `${main}/${bass}`;
SlashChord(main, bass) == main \o <<"/">> \o bass

RECURSIVE transposeChord(_, _)
transposeChord(chordText, steps) ==
  IF chordText = <<>> THEN <<>>
  ELSE IF IsChordLine(chordText)
  THEN LET toks == SplitWs(chordText)
       IN  Join([i \in 1..Len(toks) |-> transposeChord(toks[i], steps)], <<" ">>)
  ELSE LET slashParts == SplitOn(chordText, "/")
       IN  IF Len(slashParts) = 2
           THEN SlashChord(transposeChord(slashParts[1], steps),
                           transposeChord(slashParts[2], steps))
           ELSE IF Len(slashParts) > 2 THEN chordText
           ELSE transposeSingle(chordText, steps)

\* ------------------------------------------------------------- the viewer

\* Song documents the viewer may be given. A line has an array of chord
\* texts, an array of lyric words and a chord-line text; an absent or empty
\* field is <<>>. In song.lines, <<>> stands for a missing or empty array.
Line(chords, lyrics, chordLine) ==
  [chords |-> chords, lyrics |-> lyrics, chordLine |-> chordLine]

Songs ==
  { [title |-> "Empty", lines |-> <<>>],
    [title |-> "Tokens",
     lines |-> << Line(<< <<"C">>, <<"B", "b", "m">>, <<"C", "/", "B">> >>,
                       <<"a", "b", "c">>, <<>>) >>],
    [title |-> "ChordLine",
     lines |-> << Line(<<>>, <<"a">>,
                       <<"C", " ", "B", "b", "/", "C", " ", "m">>) >>],
    [title |-> "Both",
     lines |-> << Line(<< <<"B">> >>, <<"a">>, <<"C", " ", "B">>) >>],
    [title |-> "TwoLines",
     lines |-> << Line(<< <<"C", "#", "b">>, <<"m">> >>, <<"a", "b">>, <<>>),
                  Line(<<>>, <<>>, <<"B", "\t", "C">>),
                  Line(<<>>, <<"a">>, <<>>) >>] }

NoSong == [title |-> "", lines |-> <<>>]

\* What the song-view element holds: a text, or one entry per lyric line.
\* An entry is drawn either from the chord-line text (row "chordLine", one
\* text) or from the chord array (row "chordsRow", one text per span).
EmptyView == [text |-> "", lines |-> <<>>]

\* The body of the forEach of renderSong, for one line.
renderLine(line, transpose) ==
  IF line.chords = <<>> /\ line.chordLine # <<>>
  THEN [row |-> "chordLine",
        chords |-> <<transposeChord(line.chordLine, transpose)>>,
        lyrics |-> line.lyrics]
  ELSE [row |-> "chordsRow",
        chords |-> [j \in 1..Len(line.chords) |->
                      transposeChord(line.chords[j], transpose)],
        lyrics |-> line.lyrics]

\* renderSong(): the content of the song-view element afterwards.
renderSong(song, transpose) ==
  IF song.lines = <<>>
  THEN [text |-> "Song file is empty or invalid format.", lines |-> <<>>]
  ELSE [text |-> "",
        lines |-> [i \in 1..Len(song.lines) |-> renderLine(song.lines[i], transpose)]]

\* transpose++ / transpose--
Incremented(transpose) == transpose + 1

\* A variant of Decremented: the down handler counts up.
DecrementedUp(transpose) == transpose + 1

Decremented(transpose) == transpose - 1

\* ------------------------------------------------------------------ state

VARIABLES
  chordText,   \* the text given to the first call of transposeChord
  steps,       \* the steps given to the first call
  result,      \* what the first call returned
  steps2,      \* the steps of a second call, made on the first call's result
  result2,     \* what the second call returned
  pc,          \* the caller: "idle", "called", "recalled"; "off" on a viewer page
  page,        \* loadViewer: "start", "fetching", "ready", "stopped"; "off" otherwise
  song,        \* the song document loadViewer fetched
  transpose,   \* the offset variable of loadViewer
  view,        \* the content of the song-view element
  loaded,      \* history: the document as the fetch delivered it
  ups,         \* history: transpose-up events handled
  downs,       \* history: transpose-down events handled
  run,         \* history: length of the current run of events in one direction
               \* (positive for up, negative for down)
  mark         \* history: the view before the current run began

callVars == <<chordText, steps, result, steps2, result2, pc>>

viewerVars == <<page, song, transpose, view, loaded, ups, downs, run, mark>>

vars == <<chordText, steps, result, steps2, result2, pc,
          page, song, transpose, view, loaded, ups, downs, run, mark>>

ViewerOff ==
  /\ page = "off"
  /\ song = NoSong
  /\ transpose = 0
  /\ view = EmptyView
  /\ loaded = NoSong
  /\ ups = 0
  /\ downs = 0
  /\ run = 0
  /\ mark = EmptyView

\* A program that calls transposeChord on a text.
InitCall ==
  /\ chordText \in Texts
  /\ steps = 0
  /\ result = <<>>
  /\ steps2 = 0
  /\ result2 = <<>>
  /\ pc = "idle"
  /\ ViewerOff

\* The viewer page, as loadViewer is entered.
InitViewer ==
  /\ chordText = <<>>
  /\ steps = 0
  /\ result = <<>>
  /\ steps2 = 0
  /\ result2 = <<>>
  /\ pc = "off"
  /\ page = "start"
  /\ song = NoSong
  /\ transpose = 0
  /\ view = EmptyView
  /\ loaded = NoSong
  /\ ups = 0
  /\ downs = 0
  /\ run = 0
  /\ mark = EmptyView

Init == InitCall \/ InitViewer

\* transposeChord(chordText, s)
Call(s) ==
  /\ pc = "idle"
  /\ steps' = s
  /\ result' = transposeChord(chordText, s)
  /\ pc' = "called"
  /\ UNCHANGED <<chordText, steps2, result2>>
  /\ UNCHANGED viewerVars

\* transposeChord(result, b)
CallAgain(b) ==
  /\ pc = "called"
  /\ steps2' = b
  /\ result2' = transposeChord(result, b)
  /\ pc' = "recalled"
  /\ UNCHANGED <<chordText, steps, result>>
  /\ UNCHANGED viewerVars

\* loadViewer up to the await: it returns at once when the page lacks the
\* song-title element, and reports and returns when there is no file parameter.
LoadViewer(hasTitle, hasFile) ==
  /\ page = "start"
  /\ IF ~hasTitle
     THEN /\ page' = "stopped"
          /\ UNCHANGED view
     ELSE IF hasFile
     THEN /\ page' = "fetching"
          /\ UNCHANGED view
     ELSE /\ page' = "stopped"
          /\ view' = [text |-> "No song specified.", lines |-> <<>>]
  /\ UNCHANGED <<song, transpose, loaded, ups, downs, run, mark>>
  /\ UNCHANGED callVars

\* fetchJSON rejects: the catch block reports and returns.
FetchFails ==
  /\ page = "fetching"
  /\ page' = "stopped"
  /\ view' = [text |-> "Error loading song file.", lines |-> <<>>]
  /\ UNCHANGED <<song, transpose, loaded, ups, downs, run, mark>>
  /\ UNCHANGED callVars

\* fetchJSON resolves with document s: the rest of loadViewer sets the offset
\* to 0, wires the controls and renders.
FetchResolves(s) ==
  /\ page = "fetching"
  /\ page' = "ready"
  /\ song' = s
  /\ loaded' = s
  /\ transpose' = 0
  /\ view' = renderSong(s, 0)
  /\ mark' = renderSong(s, 0)
  /\ UNCHANGED <<ups, downs, run>>
  /\ UNCHANGED callVars

\* () => { transpose++; renderSong(); }
TransposeUp ==
  /\ page = "ready"
  /\ ups + downs < MaxEvents
  /\ transpose' = Incremented(transpose)
  /\ view' = renderSong(song, Incremented(transpose))
  /\ ups' = ups + 1
  /\ run' = IF run > 0 THEN run + 1 ELSE 1
  /\ mark' = IF run > 0 THEN mark ELSE view
  /\ UNCHANGED <<page, song, loaded, downs>>
  /\ UNCHANGED callVars

\* () => { transpose--; renderSong(); }
TransposeDown ==
  /\ page = "ready"
  /\ ups + downs < MaxEvents
  /\ transpose' = Decremented(transpose)
  /\ view' = renderSong(song, Decremented(transpose))
  /\ downs' = downs + 1
  /\ run' = IF run < 0 THEN run - 1 ELSE -1
  /\ mark' = IF run < 0 THEN mark ELSE view
  /\ UNCHANGED <<page, song, loaded, ups>>
  /\ UNCHANGED callVars

\* upBtn.onclick
ClickUp == TransposeUp

\* downBtn.onclick
ClickDown == TransposeDown

Keys == {"+", "=", "-", "_", "/", "a"}

\* The keydown listener loadViewer adds to the document.
KeyDown(key) ==
  /\ page = "ready"
  /\ IF key \in {"+", "="} THEN TransposeUp
     ELSE IF key \in {"-", "_"} THEN TransposeDown
     ELSE UNCHANGED vars

Next ==
  \/ \E s \in StepRange : Call(s)
  \/ \E b \in (-MaxAgain..MaxAgain) \cup {-steps} : CallAgain(b)
  \/ \E hasTitle, hasFile \in BOOLEAN : LoadViewer(hasTitle, hasFile)
  \/ FetchFails
  \/ \E s \in Songs : FetchResolves(s)
  \/ ClickUp
  \/ ClickDown
  \/ \E key \in Keys : KeyDown(key)

Spec == Init /\ [][Next]_vars

\* A program that calls transposeChord once on a longer text: long enough for
\* two tokens with a run of whitespace between them.
InitLine ==
  /\ chordText \in LineTexts
  /\ steps = 0
  /\ result = <<>>
  /\ steps2 = 0
  /\ result2 = <<>>
  /\ pc = "idle"
  /\ ViewerOff

NextLine == \E s \in -MaxLineSteps..MaxLineSteps : Call(s)

SpecLine == InitLine /\ [][NextLine]_vars

\* ------------------------------------------------ vocabulary of the claims

Letters == {"A", "B", "C", "D", "E", "F", "G"}

SharpNames == {CHORDS[i] : i \in 1..Len(CHORDS)}

FlatNames == DOMAIN FLAT_MAP

\* The 0-based place of a sharp-spelled or flat-spelled name in the cycle.
PitchClass(name) ==
  LET sharp == IF name \in FlatNames THEN FLAT_MAP[name] ELSE name
  IN  (CHOOSE i \in 1..Len(CHORDS) : CHORDS[i] = sharp) - 1

\* A single token: not empty, no whitespace, no slash.
IsToken(t) ==
  /\ t # <<>>
  /\ \A i \in 1..Len(t) : ~IsSpace(t[i]) /\ t[i] # "/"

\* A token's letter with its optional accidental, and the text after them.
RootOf(t) ==
  IF Len(t) >= 2 /\ t[2] \in {"#", "b"} THEN SubSeq(t, 1, 2) ELSE SubSeq(t, 1, 1)

SuffixOf(t) == SubSeq(t, Len(RootOf(t)) + 1, Len(t))

\* A recognised chord token: a letter A-G, an optional accidental, a suffix,
\* with a root among the 12 pitch classes and their 5 flat spellings.
Recognised(t) ==
  /\ IsToken(t)
  /\ t[1] \in Letters
  /\ RootOf(t) \in SharpNames \cup FlatNames

\* The suffix begins with an accidental sign, so that a natural new root
\* followed by it reads as another root.
AmbiguousSuffix(t) == SuffixOf(t) # <<>> /\ SuffixOf(t)[1] \in {"#", "b"}

\* The token with its root in sharp spelling.
SharpSpelled(t) ==
  IF Recognised(t) /\ RootOf(t) \in FlatNames
  THEN FLAT_MAP[RootOf(t)] \o SuffixOf(t)
  ELSE t

Count(s, c) == Cardinality({i \in 1..Len(s) : s[i] = c})

\* ----------------------------------------------------------------- claims

\* C1 as stated: additivity for every recognised chord token, whatever its
\* suffix: transposeChord(transposeChord(t, a), b) = transposeChord(t, a + b).
C1_AdditivityAnySuffix ==
  (pc = "recalled" /\ Recognised(chordText))
    => result2 = transposeChord(chordText, steps + steps2)

\* C1 amended: additivity for every recognised chord token whose suffix does
\* not begin with '#' or 'b'.
C1_Additivity ==
  (pc = "recalled" /\ Recognised(chordText) /\ ~AmbiguousSuffix(chordText))
    => result2 = transposeChord(chordText, steps + steps2)

C1_Witness ==
  /\ pc = "recalled"
  /\ chordText = <<"B", "b", "m">>
  /\ steps = 13
  /\ steps2 = -1
  /\ result2 = <<"A", "#", "m">>

\* C2 as stated: for every chord token, transposing by steps and then by
\* -steps gives the token back in sharp spelling.
C2_RoundTripAnySuffix ==
  (pc = "recalled" /\ IsToken(chordText) /\ steps2 = -steps)
    => result2 = SharpSpelled(chordText)

\* C2 amended: the round trip gives the token back in sharp spelling for every
\* chord token that is not a recognised token with a suffix beginning with
\* '#' or 'b'.
C2_RoundTrip ==
  (/\ pc = "recalled"
   /\ IsToken(chordText)
   /\ steps2 = -steps
   /\ ~(Recognised(chordText) /\ AmbiguousSuffix(chordText)))
    => result2 = SharpSpelled(chordText)

C2_Witness ==
  /\ pc = "recalled"
  /\ chordText = <<"B", "b", "m">>
  /\ steps = -13
  /\ steps2 = 13
  /\ result = <<"A", "m">>
  /\ result2 = <<"A", "#", "m">>

\* Text b is text a with some flat names written as their sharp names and no
\* other character changed.
RespelledAt(a, b, j) ==
  /\ j >= 1
  /\ j + 1 <= Len(a)
  /\ SubSeq(a, j, j + 1) \in FlatNames
  /\ SubSeq(b, j, j + 1) = FLAT_MAP[SubSeq(a, j, j + 1)]

OnlyFlatsRespelled(a, b) ==
  /\ Len(a) = Len(b)
  /\ \A i \in 1..Len(a) :
       a[i] # b[i] => RespelledAt(a, b, i) \/ RespelledAt(a, b, i - 1)

\* A text with a space between two of its tokens, with every run of
\* whitespace replaced by one space; any other text as it is.
SingleSpaced(text) ==
  IF Includes(Trim(text), " ") THEN Join(SplitWs(text), <<" ">>) ELSE text

\* C3 as stated: for every text, transposeChord(text, 0) is the text with its
\* recognised flat roots respelled as sharps and nothing else changed.
C3_ZeroOnlyRespells ==
  (pc = "called" /\ steps = 0)
    => /\ OnlyFlatsRespelled(chordText, result)
       /\ IsToken(chordText) => result = SharpSpelled(chordText)

\* C3 amended: for every text, transposeChord(text, 0) is the text with its
\* recognised flat roots respelled as sharps and, when the text has a space
\* between two tokens, with every run of whitespace replaced by one space;
\* nothing else changes.
C3_ZeroRespellsAndSpaces ==
  (pc = "called" /\ steps = 0)
    => /\ OnlyFlatsRespelled(SingleSpaced(chordText), result)
       /\ IsToken(chordText) => result = SharpSpelled(chordText)

C3_Witness ==
  /\ pc = "called"
  /\ steps = 0
  /\ chordText = <<"C", "\t", " ", "B">>
  /\ result = <<"C", " ", "B">>

\* Whitespace of some kind stands between two tokens of the text.
InteriorWhitespace(text) == HasSpaceClass(Trim(text))

\* C4: every text with whitespace of any kind between two tokens is split on
\* runs of whitespace, each token transposed by the same steps, and the
\* results joined by single spaces.
C4_LineOfAnyWhitespace ==
  (pc = "called" /\ InteriorWhitespace(chordText))
    => LET toks == SplitWs(chordText)
       IN  result = Join([i \in 1..Len(toks) |-> transposeChord(toks[i], steps)],
                         <<" ">>)

\* C5: for a recognised token whose root is at index i of the cycle, the
\* result begins with the name at index (i + steps) mod 12, and the index the
\* code computes lies in 0..11.
C5_RootWraps ==
  (pc = "called" /\ Recognised(chordText))
    => LET i == PitchClass(RootOf(chordText))
           name == CHORDS[((i + steps) % 12) + 1]
       IN  /\ NewIdx(i, steps) \in 0..11
           /\ Len(result) >= Len(name)
           /\ SubSeq(result, 1, Len(name)) = name

C5_Witness ==
  /\ pc = "called"
  /\ chordText = <<"C", "m">>
  /\ steps = -13
  /\ result = <<"B", "m">>

\* C6: for a recognised token, the result is a root name followed by exactly
\* the token's suffix.
C6_SuffixKept ==
  (pc = "called" /\ Recognised(chordText))
    => \E name \in SharpNames : result = name \o SuffixOf(chordText)

C6_Witness ==
  /\ pc = "called"
  /\ chordText = <<"B", "b", "m">>
  /\ steps = 2
  /\ result = <<"C", "m">>

\* C7: a whitespace-free text with exactly one '/' gives the transposed part
\* before the slash, a '/', and the transposed part after it, and the result
\* has exactly one '/'.
C7_SlashChord ==
  (/\ pc = "called"
   /\ ~HasSpaceClass(chordText)
   /\ Count(chordText, "/") = 1)
    => LET slashParts == SplitOn(chordText, "/")
       IN  /\ result = transposeChord(slashParts[1], steps) \o <<"/">>
                         \o transposeChord(slashParts[2], steps)
           /\ Count(result, "/") = 1

C7_Witness ==
  /\ pc = "called"
  /\ chordText = <<"C", "/", "B">>
  /\ steps = 1
  /\ result = <<"C", "#", "/", "C">>

\* The characters a result may hold: those of the input and the letters of
\* the root names.
Characters == Alphabet \cup Letters

\* A whitespace-free text that is not a chord: two or more slashes, or no
\* slash and either no leading letter A-G or a root outside the 17 names.
Unrecognised(t) ==
  /\ t # <<>>
  /\ ~HasSpaceClass(t)
  /\ \/ Count(t, "/") >= 2
     \/ Count(t, "/") = 0 /\ t[1] \notin Letters
     \/ Count(t, "/") = 0 /\ RootOf(t) \notin SharpNames \cup FlatNames

\* C8: every call returns a string, and an unrecognised whitespace-free text
\* is returned as it is, for every steps.
C8_PassThrough ==
  (pc = "called")
    => /\ result \in Seq(Characters)
       /\ Unrecognised(chordText) => result = chordText

C8_Witness ==
  /\ pc = "called"
  /\ chordText = <<"C", "b", "m">>
  /\ steps = 5
  /\ result = <<"C", "b", "m">>

\* C9: in the viewer the offset is the number of up events minus the number
\* of down events, every displayed chord is transposeChord of the loaded
\* song's chord text with that offset, and the loaded song stays as fetched.
C9_ViewFollowsOffset ==
  (page = "ready")
    => /\ transpose = ups - downs
       /\ song = loaded
       /\ Len(view.lines) = Len(loaded.lines)
       /\ \A i \in 1..Len(loaded.lines) :
            LET l == loaded.lines[i]
                shown == view.lines[i].chords
            IN  IF l.chords # <<>>
                THEN /\ Len(shown) = Len(l.chords)
                     /\ \A j \in 1..Len(shown) :
                          shown[j] = transposeChord(l.chords[j], ups - downs)
                ELSE IF l.chordLine # <<>>
                THEN shown = <<transposeChord(l.chordLine, ups - downs)>>
                ELSE shown = <<>>

C9_Witness ==
  /\ page = "ready"
  /\ ups = 2
  /\ downs = 5
  /\ loaded.title = "Tokens"
  /\ view.lines[1].chords = << <<"A">>, <<"G", "m">>, <<"A", "/", "G", "#">> >>

\* C10: adding a multiple of 12 to the steps does not change the result, and
\* in the viewer twelve consecutive up events, or twelve consecutive down
\* events, leave the view as it was before them.
C10_PeriodTwelve ==
  /\ (pc = "called") =>
       \A k \in -MaxK..MaxK : transposeChord(chordText, steps + 12 * k) = result
  /\ (page = "ready" /\ run \in {12, -12}) => view = mark

C10_Witness ==
  /\ page = "ready"
  /\ run = 12
  /\ transpose = 11
  /\ loaded.title = "ChordLine"
  /\ view.lines[1].chords = << <<"B", " ", "A", "/", "B", " ", "m">> >>
====
